---------------------------- MODULE Spec2Model ----------------------------
(***************************************************************************)
(* A model of venturero/flasktodoapp: the to-do routes of src/main.py      *)
(* (index, addTodo, completeTodo, deleteTodo over the Todo table), the     *)
(* voice-bot routes that src/main.py and src/voice_bot.py share            *)
(* (get_response with check_relevancy and find_answer, transcribe with its *)
(* temporary file, generate_audio, log_detection), and the script of the   *)
(* voice bot's page (detectVoice, stopRecordingAndProcess, processAudio).  *)
(*                                                                         *)
(* Five specifications share the variables: SpecTodo, SpecVoice,           *)
(* SpecTranscribe (two server threads), SpecServer (every route, one       *)
(* request at a time) and SpecClient (the page), with SpecClientFair for   *)
(* liveness.                                                               *)
(*                                                                         *)
(* Text is modelled as a sequence of one-character strings, so that        *)
(* lower(), upper(), strip(), split() and the substring test `in` are      *)
(* computed the way Python computes them.                                  *)
(***************************************************************************)
EXTENDS Integers, Sequences, FiniteSets, TLC

VARIABLES
    todos,      \* the rows of table Todo, in rowid order
    created,    \* history: how many rows were ever inserted
    deleted,    \* history: the items (creation numbers) deleteTodo removed
    last,       \* history: the last request when it is a to-do request, its response
                \* and the table before it
    qa_pairs,   \* the global qa_pairs list of the voice bot
    vreq,       \* the voice-route request in flight (<<>> when none)
    vresp,      \* the response to it, with what the handler did (<<>> when none)
    files,      \* the working directory: what each temp_audio.<ext> holds
    tr,         \* the /transcribe request each server thread is running
    uploads,    \* history: how many audio clips the server's threads were given
    page,       \* the globals of the browser page's script, and where its
                \* processing pipeline stands
    clock,      \* Date.now() at the last run of the detection timer, in ms
                \* since the timer was started
    heard       \* history: the volume the last run polled, since when every
                \* polled volume has been below the threshold, and whether
                \* the silence timer was reset during this recording

vars == <<todos, created, deleted, last, qa_pairs, vreq, vresp, files, tr, uploads,
          page, clock, heard>>
todoVars == <<todos, created, deleted, last>>
voiceVars == <<qa_pairs, vreq, vresp>>
fileVars == <<files, tr, uploads>>
clientVars == <<page, clock, heard>>

(***************************************************************************)
(* Bounds of the model.                                                    *)
(***************************************************************************)
MaxAdds == 3     \* addTodo requests in one behaviour
MaxWords == 2    \* words in a question put to get_response
MaxPairs == 2    \* Q&A pairs loaded from q_&_a.txt
MaxUploads == 3  \* audio clips uploaded to /transcribe in one behaviour
MaxServerAdds == 1  \* addTodo requests among the requests of all routes
MaxTime == 2000  \* milliseconds the detection timer runs for

\* Python's None (a missing form field).
None == "<None>"

\* The threads of the server that run /transcribe requests side by side
\* (Flask's app.run serves each request on a thread of its own).
Threads == {"thread 1", "thread 2"}

\* The temporary files transcribe may write, named by their extension.
Extensions == {<<"w","a","v">>, <<"w","e","b","m">>}

\* The working directory with no temporary file in it: a path holds <<>>
\* when there is no such file, or <<clip>>, the clip last saved to it.
NoFiles == [ext \in Extensions |-> <<>>]

\* A thread that is running no /transcribe request.
NoTranscribe ==
    [pc |-> "idle", hasAudio |-> FALSE, filename |-> <<>>, clip |-> 0,
     ext |-> <<>>, wrote |-> FALSE, read |-> <<>>, transcript |-> "none",
     status |-> 0, field |-> "none", heard |-> <<>>, calls |-> 0]

\* silenceStartTime = null
NoTime == -1

\* The page once startContinuousListening has set up the analyser and
\* started the detection timer: let isProcessing = false, speechDetected =
\* false, silenceStartTime = null, no MediaRecorder yet, nothing playing.
\* pc is where processAudio stands and ended is the history of how its last
\* run ended.
PageListening ==
    [isProcessing |-> FALSE, speechDetected |-> FALSE, silenceStartTime |-> NoTime,
     recorder |-> "none", pc |-> "idle", audio |-> "silent", ended |-> "none"]

\* No volume has been polled yet.
NoPoll == [volume |-> 0, ran |-> FALSE, quietSince |-> NoTime, reset |-> FALSE]

(***************************************************************************)
(*                         The to-do list (src/main.py)                    *)
(***************************************************************************)

\* request.form.get("title"): any text, the empty text, or None when the
\* form has no title field.
Titles == {"", "buy milk", None}

\* The <string:id> of /complete/<id> and /delete/<id>, as the integer SQLite
\* compares with the id column; MaxAdds + 1 is an id no row ever has.
Ids == 1..(MaxAdds + 1)

Max(S) == CHOOSE x \in S : \A y \in S : y <= x

RowIds(rows) == {rows[i].id : i \in 1..Len(rows)}

\* A mutant of NextId: the number of rows plus one.
NextId_count(rows) == Len(rows) + 1

\* id = db.Column(db.Integer, primary_key=True) on SQLite is an alias of the
\* rowid: a row inserted without an id gets the largest rowid in the table
\* plus one, or 1 in an empty table.
NextId(rows) == IF rows = <<>> THEN 1 ELSE Max(RowIds(rows)) + 1

\* Todo.query.filter_by(id=id)
FilterById(rows, id) == SelectSeq(rows, LAMBDA r : r.id = id)

\* .first(): a sequence of one row, or <<>> for None
First(rows) == IF rows = <<>> THEN <<>> ELSE <<Head(rows)>>

\* Todo.query.all()
QueryAll(rows) == rows

\* A mutant of Inserted: the new row takes the default of a checked box.
Inserted_complete(rows, title, item) ==
    Append(rows, [id |-> NextId(rows), title |-> title, complete |-> TRUE,
                  item |-> item])

\* newTodo = Todo(title=title, complete=False); db.session.add(newTodo);
\* db.session.commit().  item is the history field naming the row created.
Inserted(rows, title, item) ==
    Append(rows, [id |-> NextId(rows), title |-> title, complete |-> FALSE,
                  item |-> item])

\* A mutant of Toggled: marks the row complete instead of flipping it.
Toggled_set(todo) == [todo EXCEPT !.complete = TRUE]

\* todo.complete = not todo.complete
Toggled(todo) == [todo EXCEPT !.complete = ~todo.complete]

\* A mutant of Updated: an UPDATE with no WHERE clause, every row takes the
\* changed row's completion flag.
Updated_all(rows, todo) ==
    [i \in 1..Len(rows) |-> [rows[i] EXCEPT !.complete = todo.complete]]

\* db.session.commit() of a changed row: UPDATE ... WHERE id = todo.id
Updated(rows, todo) ==
    [i \in 1..Len(rows) |-> IF rows[i].id = todo.id THEN todo ELSE rows[i]]

\* A mutant of Removed: the delete is never committed.
Removed_nocommit(rows, todo) == rows

\* db.session.delete(todo); db.session.commit(): DELETE ... WHERE id = todo.id
Removed(rows, todo) == SelectSeq(rows, LAMBDA r : r.id # todo.id)

\* The status of a response.
Redirect == 302
Fault == 500
Ok == 200

\* A mutant of completeTodoResult: a missing row is skipped and the request
\* redirects.
completeTodoResult_skip(rows, id) ==
    LET todo == First(FilterById(rows, id))
    IN  IF todo = <<>>
        THEN [status |-> Redirect, rows |-> rows]
        ELSE [status |-> Redirect, rows |-> Updated(rows, Toggled(todo[1]))]

\* completeTodo(id): with no row, todo is None and `todo.complete` raises
\* AttributeError before anything is committed; Flask answers 500.
completeTodoResult(rows, id) ==
    LET todo == First(FilterById(rows, id))
    IN  IF todo = <<>>
        THEN [status |-> Fault, rows |-> rows]
        ELSE [status |-> Redirect, rows |-> Updated(rows, Toggled(todo[1]))]

\* deleteTodo(id): with no row, db.session.delete(None) raises
\* UnmappedInstanceError before anything is committed; Flask answers 500.
deleteTodoResult(rows, id) ==
    LET todo == First(FilterById(rows, id))
    IN  IF todo = <<>>
        THEN [status |-> Fault, rows |-> rows]
        ELSE [status |-> Redirect, rows |-> Removed(rows, todo[1])]

\* index(): todos = Todo.query.all(), rendered
indexListing(rows) == QueryAll(rows)

\* A to-do request with its response; before is the table the request found,
\* and again tells that the request before it was the same toggle, done too.
Request(op, id, title, status, listing, before, again) ==
    [op |-> op, id |-> id, title |-> title, status |-> status,
     listing |-> listing, before |-> before, again |-> again]

\* GET /
index ==
    /\ last' = Request("index", 0, None, Ok, indexListing(todos), todos, FALSE)
    /\ UNCHANGED <<todos, created, deleted>>

\* POST /add
addTodo(title) ==
    /\ created < MaxAdds
    /\ todos' = Inserted(todos, title, created + 1)
    /\ created' = created + 1
    /\ last' = Request("add", 0, title, Redirect, <<>>, todos, FALSE)
    /\ UNCHANGED deleted

\* GET /complete/<id>
completeTodo(id) ==
    LET r == completeTodoResult(todos, id)
    IN  /\ todos' = r.rows
        /\ last' = Request("complete", id, None, r.status, <<>>, todos,
                            /\ r.status = Redirect
                            /\ last.op = "complete"
                            /\ last.status = Redirect
                            /\ last.id = id)
        /\ UNCHANGED <<created, deleted>>

\* GET /delete/<id>
deleteTodo(id) ==
    LET r == deleteTodoResult(todos, id)
        todo == First(FilterById(todos, id))
    IN  /\ todos' = r.rows
        /\ deleted' = IF r.status = Redirect
                      THEN deleted \cup {todo[1].item}
                      ELSE deleted
        /\ last' = Request("delete", id, None, r.status, <<>>, todos, FALSE)
        /\ UNCHANGED created

\* The state after start-up with a new todo.db: db.create_all() leaves an
\* empty table, and no get_response request is in flight.
InitTodo ==
    /\ todos = <<>>
    /\ created = 0
    /\ deleted = {}
    /\ last = Request("start", 0, None, Ok, <<>>, <<>>, FALSE)
    /\ qa_pairs = <<>>
    /\ vreq = <<>>
    /\ vresp = <<>>
    /\ files = NoFiles
    /\ tr = [t \in Threads |-> NoTranscribe]
    /\ uploads = 0
    /\ page = PageListening
    /\ clock = 0
    /\ heard = NoPoll

NextTodo ==
    \/ index /\ UNCHANGED <<voiceVars, fileVars, clientVars>>
    \/ \E title \in Titles : addTodo(title) /\ UNCHANGED <<voiceVars, fileVars, clientVars>>
    \/ \E id \in Ids : completeTodo(id) /\ UNCHANGED <<voiceVars, fileVars, clientVars>>
    \/ \E id \in Ids : deleteTodo(id) /\ UNCHANGED <<voiceVars, fileVars, clientVars>>

SpecTodo == InitTodo /\ [][NextTodo]_vars

(***************************************************************************)
(*                     Properties of the to-do list                        *)
(***************************************************************************)

\* The row of table `rows` with identifier id, as a sequence of one row or <<>>.
RowOf(rows, id) == First(FilterById(rows, id))

\* The rows of `rows` are exactly those of `before`, in order, and one more.
OneNewRow(before, rows) ==
    /\ Len(rows) = Len(before) + 1
    /\ \A i \in 1..Len(before) : rows[i] = before[i]
    /\ rows[Len(rows)].id \notin RowIds(before)

\* C1: for every title, the empty one included, an Add request creates
\* exactly one new item with that title and completion = false (every other
\* row is as before), and a listing made right after the Add shows that item
\* with completion = false.
C1_AddThenList ==
    /\ [](last.op = "add" =>
            /\ last.status = Redirect
            /\ OneNewRow(last.before, todos)
            /\ todos[Len(todos)].title = last.title
            /\ todos[Len(todos)].complete = FALSE)
    /\ [][(last.op = "add" /\ last'.op = "index") =>
            \E i \in 1..Len(last'.listing) :
                /\ last'.listing[i] = todos[Len(todos)]
                /\ last'.listing[i].title = last.title
                /\ last'.listing[i].complete = FALSE]_vars

\* C1's case: the empty title was added, to a table that already held rows,
\* and the listing that followed has been made.
C1_Witness ==
    /\ last.op = "index"
    /\ Len(last.listing) >= 2
    /\ last.listing[Len(last.listing)].title = ""
    /\ last.listing[Len(last.listing)].complete = FALSE

\* C2: two successive Toggle-completion requests on the identifier of an
\* existing item leave its completion flag as it was before the first one.
C2_ToggleTwice ==
    [][(/\ last.op = "complete" /\ last.status = Redirect
        /\ last'.op = "complete" /\ last'.status = Redirect
        /\ last'.id = last.id) =>
            /\ RowOf(last.before, last.id) # <<>>
            /\ RowOf(todos', last.id) # <<>>
            /\ RowOf(todos', last.id)[1].complete
                 = RowOf(last.before, last.id)[1].complete
            /\ RowOf(todos', last.id)[1].item
                 = RowOf(last.before, last.id)[1].item]_vars

\* C2's case: the second of two successive toggles of one item has ended,
\* on a table that holds another item too.
C2_Witness ==
    /\ last.op = "complete"
    /\ last.again
    /\ Len(todos) >= 2
    /\ RowOf(last.before, last.id)[1].complete = TRUE
    /\ RowOf(todos, last.id)[1].complete = FALSE

\* C3: once a Delete request on an existing item has completed, no later
\* listing shows that item, whatever requests follow.
C3_DeletedNeverListed ==
    last.op = "index" =>
        \A i \in 1..Len(last.listing) : last.listing[i].item \notin deleted

\* C3's case: a listing made after a delete and a later add, showing the
\* item added since.
C3_Witness ==
    /\ last.op = "index"
    /\ deleted # {}
    /\ \E i \in 1..Len(last.listing) :
          \E d \in deleted : last.listing[i].item > d

\* C4: in every reachable state no two stored items have the same identifier.
C4_UniqueIds ==
    \A i, j \in 1..Len(todos) : i # j => todos[i].id # todos[j].id

\* C4's case: several rows are stored and one of them was given an
\* identifier that a deleted row had before it.
C4_Witness ==
    /\ Len(todos) >= 2
    /\ deleted # {}
    /\ \E i \in 1..Len(todos) : todos[i].id # todos[i].item

\* C5: a Toggle-completion or Delete request whose identifier matches no
\* stored item ends in an unhandled fault, not in a redirect, and leaves the
\* stored items as they were.
C5_MissingIdFaults ==
    (last.op \in {"complete", "delete"} /\ RowOf(last.before, last.id) = <<>>) =>
        /\ last.status = Fault
        /\ last.status # Redirect
        /\ todos = last.before

\* C5's case: a delete of an identifier no row has, on a table that holds rows.
C5_Witness ==
    /\ last.op = "delete"
    /\ last.status = Fault
    /\ todos # <<>>

\* The rows of `rows` are those of `before`, in order, without its k-th row.
WithoutRow(before, rows, k) ==
    /\ Len(rows) = Len(before) - 1
    /\ \A i \in 1..(k - 1) : rows[i] = before[i]
    /\ \A i \in k..Len(rows) : rows[i] = before[i + 1]

\* C17: on every to-do state reachable by add, toggle-completion and delete
\* requests, a Toggle-completion request on item X changes nothing but X's
\* completion flag (X's identifier and title, and every other item, are as
\* before), and a Delete request on item X removes X only and leaves every
\* other item's identifier, title and completion flag as before.
C17_OnlyTheItemChanges ==
    /\ (last.op = "complete" /\ last.status = Redirect) =>
            /\ Len(todos) = Len(last.before)
            /\ \A i \in 1..Len(todos) :
                  IF last.before[i].id = last.id
                  THEN /\ todos[i].id = last.before[i].id
                       /\ todos[i].title = last.before[i].title
                       /\ todos[i].item = last.before[i].item
                  ELSE todos[i] = last.before[i]
    /\ (last.op = "delete" /\ last.status = Redirect) =>
            \E k \in 1..Len(last.before) :
                /\ last.before[k].id = last.id
                /\ WithoutRow(last.before, todos, k)

\* C17's case: after an earlier delete, an item that is neither the first nor
\* the last of several stored items has been toggled, and its flag has changed.
C17_Witness ==
    /\ last.op = "complete"
    /\ last.status = Redirect
    /\ deleted # {}
    /\ Len(todos) >= 2
    /\ \E i \in 1..Len(todos) :
          /\ todos[i].id = last.id
          /\ todos[i].complete # last.before[i].complete
          /\ \E j \in 1..Len(todos) : j # i /\ todos[j].complete # todos[i].complete

(***************************************************************************)
(*        The voice bot's get_response (src/main.py, src/voice_bot.py)     *)
(***************************************************************************)

UpperLetters ==
    <<"A","B","C","D","E","F","G","H","I","J","K","L","M",
      "N","O","P","Q","R","S","T","U","V","W","X","Y","Z">>
LowerLetters ==
    <<"a","b","c","d","e","f","g","h","i","j","k","l","m",
      "n","o","p","q","r","s","t","u","v","w","x","y","z">>

IndexIn(letters, c) == CHOOSE i \in 1..Len(letters) : letters[i] = c
IsIn(letters, c) == \E i \in 1..Len(letters) : letters[i] = c

\* str.lower() and str.upper(), character by character
LowerChar(c) == IF IsIn(UpperLetters, c) THEN LowerLetters[IndexIn(UpperLetters, c)] ELSE c
UpperChar(c) == IF IsIn(LowerLetters, c) THEN UpperLetters[IndexIn(LowerLetters, c)] ELSE c

Lower(s) == [i \in 1..Len(s) |-> LowerChar(s[i])]
Upper(s) == [i \in 1..Len(s) |-> UpperChar(s[i])]

\* The whitespace str.strip() and str.split() act on.
IsSpace(c) == c \in {" ", "\n", "\t"}

RECURSIVE LStrip(_)
LStrip(s) == IF s # <<>> /\ IsSpace(Head(s)) THEN LStrip(Tail(s)) ELSE s

RECURSIVE RStrip(_)
RStrip(s) ==
    IF s # <<>> /\ IsSpace(s[Len(s)]) THEN RStrip(SubSeq(s, 1, Len(s) - 1)) ELSE s

\* str.strip()
Strip(s) == RStrip(LStrip(s))

\* str.split(): the maximal runs of non-whitespace, in order
RECURSIVE SplitFrom(_, _, _)
SplitFrom(s, i, word) ==
    IF i > Len(s)
    THEN IF word = <<>> THEN <<>> ELSE <<word>>
    ELSE IF IsSpace(s[i])
         THEN (IF word = <<>> THEN <<>> ELSE <<word>>) \o SplitFrom(s, i + 1, <<>>)
         ELSE SplitFrom(s, i + 1, Append(word, s[i]))

Split(s) == SplitFrom(s, 1, <<>>)

\* Python's `word in text` on strings: word occurs in text as a substring
Contains(word, text) ==
    \E k \in 0..(Len(text) - Len(word)) : SubSeq(text, k + 1, k + Len(word)) = word

\* A mutant of IsKeyword: words of 3 characters count too.
IsKeyword_ge(word) == Len(word) >= 3

\* `if len(word) > 3` of find_answer
IsKeyword(word) == Len(word) > 3

\* any(word in qa_question_lower for word in question_lower.split() if len(word) > 3)
AnyWordIn(question_lower, qa_question_lower) ==
    LET words == Split(question_lower)
    IN  \E w \in 1..Len(words) :
            IsKeyword(words[w]) /\ Contains(words[w], qa_question_lower)

\* A mutant of MatchFrom: the loop keeps the last pair that matches.
RECURSIVE MatchFrom_last(_, _, _)
MatchFrom_last(pairs, question_lower, i) ==
    IF i > Len(pairs) THEN 0
    ELSE LET later == MatchFrom_last(pairs, question_lower, i + 1)
         IN  IF later # 0 THEN later
             ELSE IF AnyWordIn(question_lower, Lower(pairs[i].question)) THEN i ELSE 0

\* `for qa in qa_pairs:` of find_answer, from pair i on: the index of the
\* pair whose answer the loop returns, or 0 when the loop ends without one.
RECURSIVE MatchFrom(_, _, _)
MatchFrom(pairs, question_lower, i) ==
    IF i > Len(pairs) THEN 0
    ELSE IF AnyWordIn(question_lower, Lower(pairs[i].question)) THEN i
         ELSE MatchFrom(pairs, question_lower, i + 1)

\* The fixed texts of the handlers.
ApologyText == <<"I apologize, but I couldn't find an answer to your question.">>
RedirectionText == <<"I'm a Q&A assistant designed specifically to help with questions about the to-do list application. [...] Please ask me something about the to-do list app!">>
NoQuestionText == <<"No question provided">>
ExceptionText == <<"str(e)">>

\* What openai_client.chat.completions.create(...) followed by
\* response.choices[0].message.content can come to: the call raises, the
\* response has no choices, the message has no content (None), or a text.
Raises == [kind |-> "raises", content |-> <<>>]
NoChoices == [kind |-> "no choices", content |-> <<>>]
NullContent == [kind |-> "null content", content |-> <<>>]
Text(t) == [kind |-> "text", content |-> t]

YES == <<"Y","E","S">>

\* The classifier's replies.
ClassifyOutcomes ==
    { Raises, NoChoices, NullContent,
      Text(YES), Text(<<"y","e","s">>), Text(<<" ","Y","e","s","\n">>),
      Text(<<"N","O">>), Text(<<"Y","E","S",".">>), Text(<<>>) }

\* The replies to the free-form completion of find_answer.
CompletionOutcomes ==
    { Raises, NoChoices, NullContent,
      Text(<<" ","U","s","e"," ","i","t",".","\n">>), Text(<<>>) }

Call(api, outcome) == [api |-> api, outcome |-> outcome]

\* A mutant of check_relevancy: a failed check rejects the question.
check_relevancy_closed(question, c) ==
    IF c.kind # "text" THEN FALSE ELSE Upper(Strip(c.content)) = YES

\* check_relevancy(question) when the classification call comes to c:
\* answer = ...content.strip().upper(); return answer == "YES"; any
\* exception returns True.
check_relevancy(question, c) ==
    IF c.kind # "text" THEN TRUE ELSE Upper(Strip(c.content)) = YES

\* A mutant of find_answer: with no match, the first stored answer is given
\* and the language model is not asked.
find_answer_default(pairs, question, k) ==
    LET m == MatchFrom(pairs, Lower(question), 1)
    IN  IF m # 0
        THEN [path |-> "direct", matched |-> m, answer |-> pairs[m].answer,
              calls |-> <<>>, pairs |-> pairs]
        ELSE [path |-> "direct", matched |-> 0,
              answer |-> IF pairs = <<>> THEN ApologyText ELSE pairs[1].answer,
              calls |-> <<>>, pairs |-> pairs]

\* A mutant of find_answer: a failed completion call is made once more
\* before the apology is given.
find_answer_retry(pairs, question, k) ==
    LET m == MatchFrom(pairs, Lower(question), 1)
    IN  IF m # 0
        THEN [path |-> "direct", matched |-> m, answer |-> pairs[m].answer,
              calls |-> <<>>, pairs |-> pairs]
        ELSE [path |-> "fallback", matched |-> 0,
              answer |-> IF k.kind = "text" THEN Strip(k.content) ELSE ApologyText,
              calls |-> IF k.kind = "text"
                        THEN <<Call("completion", k)>>
                        ELSE <<Call("completion", k), Call("completion", k)>>,
              pairs |-> pairs]

\* A mutant of find_answer: an answer the language model gave is kept as a
\* new pair of the list.
find_answer_learn(pairs, question, k) ==
    LET m == MatchFrom(pairs, Lower(question), 1)
    IN  IF m # 0
        THEN [path |-> "direct", matched |-> m, answer |-> pairs[m].answer,
              calls |-> <<>>, pairs |-> pairs]
        ELSE [path |-> "fallback", matched |-> 0,
              answer |-> IF k.kind = "text" THEN Strip(k.content) ELSE ApologyText,
              calls |-> <<Call("completion", k)>>,
              pairs |-> IF k.kind = "text"
                        THEN Append(pairs, [question |-> question,
                                            answer |-> Strip(k.content)])
                        ELSE pairs]

\* find_answer(question) over the list `pairs` when the completion call, if
\* made, comes to k: the answer returned, with the calls made on the way
\* and the list as the lookup leaves it.
find_answer(pairs, question, k) ==
    LET m == MatchFrom(pairs, Lower(question), 1)
    IN  IF m # 0
        THEN [path |-> "direct", matched |-> m, answer |-> pairs[m].answer,
              calls |-> <<>>, pairs |-> pairs]
        ELSE [path |-> "fallback", matched |-> 0,
              answer |-> IF k.kind = "text" THEN Strip(k.content) ELSE ApologyText,
              calls |-> <<Call("completion", k)>>, pairs |-> pairs]

\* The body of a POST /get_response: JSON with a question, JSON without the
\* question key, or a body request.json cannot read.
Json(question) == [kind |-> "json", question |-> question]
NoQuestionKey == [kind |-> "json without question", question |-> <<>>]
NotJson == [kind |-> "not json", question |-> <<>>]

Response(status, field, text, gate, lookup, path, matched, calls) ==
    [status |-> status, field |-> field, text |-> text, gate |-> gate,
     lookup |-> lookup, path |-> path, matched |-> matched, calls |-> calls]

BadRequest == 400

\* A mutant of get_responseResult: the answer is looked up whatever the
\* relevancy check said.
get_responseResult_nogate(pairs, req, c, k) ==
    IF req.kind = "not json"
    THEN Response(Fault, "error", ExceptionText, "none", FALSE, "none", 0, <<>>)
    ELSE LET question == Strip(req.question)
         IN  IF question = <<>>
             THEN Response(BadRequest, "error", NoQuestionText, "none", FALSE,
                           "none", 0, <<>>)
             ELSE LET r == find_answer(pairs, question, k)
                  IN  Response(Ok, "response", r.answer,
                               IF check_relevancy(question, c)
                               THEN "relevant" ELSE "rejected",
                               TRUE, r.path, r.matched,
                               <<Call("classification", c)>> \o r.calls)

\* get_response() on request body req, when the classification call comes
\* to c and the completion call, if made, to k.
get_responseResult(pairs, req, c, k) ==
    IF req.kind = "not json"
    THEN Response(Fault, "error", ExceptionText, "none", FALSE, "none", 0, <<>>)
    ELSE LET question == Strip(req.question)
         IN  IF question = <<>>
             THEN Response(BadRequest, "error", NoQuestionText, "none", FALSE,
                           "none", 0, <<>>)
             ELSE IF ~check_relevancy(question, c)
                  THEN Response(Ok, "response", RedirectionText, "rejected",
                                FALSE, "none", 0, <<Call("classification", c)>>)
                  ELSE LET r == find_answer(pairs, question, k)
                       IN  Response(Ok, "response", r.answer, "relevant", TRUE,
                                    r.path, r.matched,
                                    <<Call("classification", c)>> \o r.calls)

\* The words questions are made of: one of 3 characters, one in capitals,
\* one that holds another, one no stored question holds, and the empty word
\* (which puts whitespace at the ends of a question, or doubles it inside).
Vocabulary ==
    { <<>>,
      <<"a","d","d">>,
      <<"T","A","S","K">>,
      <<"t","a","s","k","s">>,
      <<"D","e","l","e","t","e">>,
      <<"w","h","e","n">> }

RECURSIVE Join(_)
Join(words) ==
    IF words = <<>> THEN <<>>
    ELSE IF Len(words) = 1 THEN words[1]
         ELSE words[1] \o <<" ">> \o Join(Tail(words))

WordSeqs == UNION {[1..n -> Vocabulary] : n \in 0..MaxWords}

\* The questions put to get_response.
Questions == {Join(ws) : ws \in WordSeqs}

Requests == {Json(q) : q \in Questions} \cup {NoQuestionKey, NotJson}

\* The pairs q_&_a.txt may hold: load_qa_pairs keeps a pair only if its
\* question and its answer are non-empty, both stripped.
StoredPairs ==
    { [question |-> <<"A","d","d"," ","a"," ","t","a","s","k">>,
       answer |-> <<"Type the task and press Add.">>],
      [question |-> <<"D","e","l","e","t","e"," ","t","a","s","k","s">>,
       answer |-> <<"Press Delete next to the task.">>],
      [question |-> <<"A","d","d">>,
       answer |-> <<"Add is the button under the title box.">>] }

IsInjective(f) == \A i, j \in DOMAIN f : i # j => f[i] # f[j]

\* The lists load_qa_pairs() may return (<<>> also when the file is missing).
QALists ==
    UNION {{f \in [1..n -> StoredPairs] : IsInjective(f)} : n \in 0..MaxPairs}

\* A client posts to /get_response.
PostGetResponse(req) ==
    /\ vreq = <<>>
    /\ vreq' = <<req>>
    /\ vresp' = <<>>
    /\ UNCHANGED qa_pairs

\* The server runs get_response on the request.
get_response(c, k) ==
    /\ vreq # <<>>
    /\ vresp = <<>>
    /\ vresp' = <<get_responseResult(qa_pairs, vreq[1], c, k)>>
    /\ UNCHANGED <<vreq, qa_pairs>>

\* The client takes the response.
TakeResponse ==
    /\ vresp # <<>>
    /\ vreq' = <<>>
    /\ vresp' = <<>>
    /\ UNCHANGED qa_pairs

\* The state after start-up: qa_pairs = load_qa_pairs(), the to-do table as
\* db.create_all() leaves it.
InitVoice ==
    /\ qa_pairs \in QALists
    /\ vreq = <<>>
    /\ vresp = <<>>
    /\ todos = <<>>
    /\ created = 0
    /\ deleted = {}
    /\ last = Request("start", 0, None, Ok, <<>>, <<>>, FALSE)
    /\ files = NoFiles
    /\ tr = [t \in Threads |-> NoTranscribe]
    /\ uploads = 0
    /\ page = PageListening
    /\ clock = 0
    /\ heard = NoPoll

NextVoice ==
    \/ \E req \in Requests : PostGetResponse(req) /\ UNCHANGED <<todoVars, fileVars, clientVars>>
    \/ \E c \in ClassifyOutcomes, k \in CompletionOutcomes :
          get_response(c, k) /\ UNCHANGED <<todoVars, fileVars, clientVars>>
    \/ TakeResponse /\ UNCHANGED <<todoVars, fileVars, clientVars>>

SpecVoice == InitVoice /\ [][NextVoice]_vars

(***************************************************************************)
(*                     Properties of get_response                          *)
(***************************************************************************)

\* A get_response request has been handled and its answer was looked up.
LookedUp == vresp # <<>> /\ vresp[1].lookup

\* The question find_answer was given: the request's, stripped.
AskedQuestion == Strip(vreq[1].question)

\* The keywords of a question: its whitespace-separated words, in lower
\* case, that are longer than 3 characters.
Keywords(question) ==
    LET words == Split(Lower(question))
    IN  {words[i] : i \in {j \in 1..Len(words) : Len(words[j]) > 3}}

\* The question shares a keyword with the pair's stored question: one of
\* its keywords occurs in the stored question, case aside.
SharesKeyword(question, pair) ==
    \E w \in Keywords(question) : Contains(w, Lower(pair.question))

\* The pairs of the loaded list that share a keyword with the question.
Sharing(question) ==
    {i \in 1..Len(qa_pairs) : SharesKeyword(question, qa_pairs[i])}

Min(S) == CHOOSE x \in S : \A y \in S : x <= y

CompletionCalls(resp) ==
    Cardinality({i \in 1..Len(resp.calls) : resp.calls[i].api = "completion"})

\* C6 as stated: whenever the question shares a keyword with some stored
\* pair, the lookup returns THAT pair's answer and makes no completion call.
C6_AnySharingPairAnswers ==
    LookedUp =>
        \A i \in Sharing(AskedQuestion) :
            /\ vresp[1].text = qa_pairs[i].answer
            /\ CompletionCalls(vresp[1]) = 0

\* C6, amended: whenever the question shares a keyword with some stored
\* pair, the lookup returns the answer of the first such pair in the loaded
\* order and makes no completion call.
C6_FirstSharingPairAnswers ==
    (LookedUp /\ Sharing(AskedQuestion) # {}) =>
        /\ vresp[1].text = qa_pairs[Min(Sharing(AskedQuestion))].answer
        /\ vresp[1].path = "direct"
        /\ CompletionCalls(vresp[1]) = 0

\* C6's case: the second pair of the list is the only one that shares a
\* keyword with the question, and the lookup has answered.
C6_Witness ==
    /\ LookedUp
    /\ Sharing(AskedQuestion) = {2}
    /\ vresp[1].text = qa_pairs[2].answer

\* C7: the lookup matches the question's words longer than 3 characters,
\* case aside, against the stored questions; the pair it answers with is the
\* first one in the loaded order that matches, and a question whose words
\* all have 3 characters or fewer matches nothing.
C7_FirstMatchOnLongWords ==
    LookedUp =>
        LET sharing == Sharing(AskedQuestion)
            words == Split(AskedQuestion)
        IN  /\ vresp[1].matched = (IF sharing = {} THEN 0 ELSE Min(sharing))
            /\ vresp[1].path = "direct" <=> vresp[1].matched # 0
            /\ vresp[1].matched # 0 =>
                   vresp[1].text = qa_pairs[vresp[1].matched].answer
            /\ (\A i \in 1..Len(words) : Len(words[i]) <= 3) =>
                   vresp[1].matched = 0

\* C7's case: a question in capitals matches two stored questions written
\* in lower case, holds a 3-character word that a stored question holds
\* too, and the first pair's answer is returned.
C7_Witness ==
    /\ LookedUp
    /\ Sharing(AskedQuestion) = {1, 2}
    /\ AskedQuestion # Lower(AskedQuestion)
    /\ \E i \in 1..Len(Split(AskedQuestion)) :
          /\ Len(Split(AskedQuestion)[i]) <= 3
          /\ Contains(Lower(Split(AskedQuestion)[i]), Lower(qa_pairs[1].question))
    /\ vresp[1].matched = 1

\* C8: for a question that shares no keyword with any stored question, the
\* lookup takes the fallback path: it makes exactly one completion call and
\* gives no stored answer directly.
C8_NoOverlapFallsBack ==
    (LookedUp /\ Sharing(AskedQuestion) = {}) =>
        /\ vresp[1].path = "fallback"
        /\ vresp[1].matched = 0
        /\ CompletionCalls(vresp[1]) = 1
        /\ vresp[1].calls[Len(vresp[1].calls)].api = "completion"
        /\ vresp[1].text =
             (IF vresp[1].calls[Len(vresp[1].calls)].outcome.kind = "text"
              THEN Strip(vresp[1].calls[Len(vresp[1].calls)].outcome.content)
              ELSE ApologyText)

\* C8's case: a non-empty list, a question whose only overlap with a stored
\* question is a 3-character word, and the completion's text returned.
C8_Witness ==
    /\ LookedUp
    /\ Len(qa_pairs) = MaxPairs
    /\ Sharing(AskedQuestion) = {}
    /\ \E i \in 1..Len(qa_pairs) : Contains(Lower(AskedQuestion), Lower(qa_pairs[i].question))
    /\ vresp[1].path = "fallback"
    /\ vresp[1].text = <<"U","s","e"," ","i","t",".">>

\* The classification call of a handled request, and whether its reply,
\* stripped and in capitals, is YES.
Classified == vresp # <<>> /\ vresp[1].calls # <<>>
Classification == vresp[1].calls[1].outcome
SaysYes(outcome) == outcome.kind = "text" /\ Upper(Strip(outcome.content)) = YES

\* C9: for a non-empty question the relevancy gate rejects (the classifier
\* answers something other than YES), get_response returns the fixed
\* redirection message and looks no answer up: no stored answer is matched
\* and no completion call is made.
C9_RejectedIsRedirected ==
    (/\ Classified
     /\ Classification.kind = "text"
     /\ ~SaysYes(Classification)) =>
        /\ AskedQuestion # <<>>
        /\ vresp[1].status = Ok
        /\ vresp[1].field = "response"
        /\ vresp[1].text = RedirectionText
        /\ ~vresp[1].lookup
        /\ vresp[1].matched = 0
        /\ CompletionCalls(vresp[1]) = 0
        /\ Len(vresp[1].calls) = 1

\* C9's case: a question that shares a keyword with a stored question is
\* rejected by a classifier that answered "YES.".
C9_Witness ==
    /\ Classified
    /\ Classification = Text(<<"Y","E","S",".">>)
    /\ Sharing(AskedQuestion) # {}
    /\ vresp[1].text = RedirectionText

\* C10: whenever the classification call fails (it raises, or its response
\* holds no choice or no content), the relevancy check counts the question
\* as relevant, and the request goes on to the answer lookup: it returns
\* neither the redirection message nor an error.
C10_FailedCheckIsRelevant ==
    (Classified /\ Classification.kind # "text") =>
        /\ vresp[1].gate = "relevant"
        /\ vresp[1].lookup
        /\ vresp[1].path \in {"direct", "fallback"}
        /\ vresp[1].status = Ok
        /\ vresp[1].field = "response"
        /\ vresp[1].text # RedirectionText

\* C10's case: the classification call raised and a stored answer was given.
C10_Witness ==
    /\ Classified
    /\ Classification = Raises
    /\ vresp[1].path = "direct"
    /\ vresp[1].text = qa_pairs[vresp[1].matched].answer

\* The completion call of a handled request, when one was made: the last
\* call of the request.
Completed ==
    /\ vresp # <<>>
    /\ vresp[1].calls # <<>>
    /\ vresp[1].calls[Len(vresp[1].calls)].api = "completion"
Completion == vresp[1].calls[Len(vresp[1].calls)].outcome

\* C11: whenever no stored question matches and the fallback completion call
\* fails (it raises, or its response holds no choice or no content), the
\* lookup returns the fixed apology text: nothing is raised to the request,
\* which answers 200, and the language model is not called again.
C11_FailedFallbackApologises ==
    (Completed /\ Completion.kind # "text") =>
        /\ Sharing(AskedQuestion) = {}
        /\ vresp[1].text = ApologyText
        /\ vresp[1].status = Ok
        /\ vresp[1].field = "response"
        /\ vresp[1].path = "fallback"
        /\ CompletionCalls(vresp[1]) = 1

\* C11's case: with pairs loaded and none matching, the completion call
\* raised and the apology was returned.
C11_Witness ==
    /\ Completed
    /\ Completion = Raises
    /\ qa_pairs # <<>>
    /\ AskedQuestion # <<>>
    /\ vresp[1].text = ApologyText

(***************************************************************************)
(*          transcribe and its temporary file (src/main.py, voice_bot.py)  *)
(***************************************************************************)

\* The names uploads come with: the browser's recording.wav, a name in
\* capitals, a name with no dot, and a .webm.
Filenames ==
    { <<"r","e","c",".","w","a","v">>,
      <<"a",".","b",".","W","A","V">>,
      <<"c","l","i","p">>,
      <<"c",".","w","e","b","m">> }

\* '.' in filename
HasDot(filename) == \E i \in 1..Len(filename) : filename[i] = "."

\* filename.split('.')[-1]: what follows the last dot
AfterLastDot(filename) ==
    LET dot == Max({i \in 1..Len(filename) : filename[i] = "."})
    IN  SubSeq(filename, dot + 1, Len(filename))

\* file_ext = filename.split('.')[-1].lower() if '.' in filename else 'webm';
\* temp_path = f'temp_audio.{file_ext}' is named by it.
FileExt(filename) ==
    IF HasDot(filename) THEN Lower(AfterLastDot(filename)) ELSE <<"w","e","b","m">>

\* What transcriber.transcribe(temp_path) comes to once the file is there:
\* it raises, or returns a transcript whose status is error or completed.
TranscribeOutcomes == {"raises", "error", "completed"}

\* The request has returned.
Returned(t, status, field) ==
    [t EXCEPT !.pc = "done", !.status = status, !.field = field]

\* One step of transcribe() on a thread in state t, over the directory fs,
\* when the vendor call comes to o.  The steps are the handler's accesses to
\* the directory:
\*   received    -> the 'audio' check, file_ext, audio_file.save(temp_path)
\*   saved       -> transcriber.transcribe(temp_path), which reads the file
\*   transcribed -> os.path.exists(temp_path)
\*   exists      -> os.remove(temp_path)
\*   cleaned     -> the status check and the response
\* Any exception (the vendor call raising, the file gone when it is opened
\* or removed) leaves the try block for `return jsonify(error), 500`.
transcribeStep(fs, t, o) ==
    CASE t.pc = "received" ->
            IF ~t.hasAudio
            THEN [fs |-> fs, t |-> Returned(t, BadRequest, "error")]
            ELSE LET ext == FileExt(t.filename)
                 IN  [fs |-> [fs EXCEPT ![ext] = <<t.clip>>],
                      t |-> [t EXCEPT !.pc = "saved", !.ext = ext, !.wrote = TRUE]]
      [] t.pc = "saved" ->
            IF fs[t.ext] = <<>> \/ o = "raises"
            THEN [fs |-> fs,
                  t |-> [Returned(t, Fault, "error") EXCEPT !.calls = t.calls + 1]]
            ELSE [fs |-> fs,
                  t |-> [t EXCEPT !.pc = "transcribed", !.read = fs[t.ext],
                                  !.transcript = o, !.calls = t.calls + 1]]
      [] t.pc = "transcribed" ->
            [fs |-> fs,
             t |-> [t EXCEPT !.pc = IF fs[t.ext] # <<>> THEN "exists" ELSE "cleaned"]]
      [] t.pc = "exists" ->
            IF fs[t.ext] = <<>>
            THEN [fs |-> fs, t |-> Returned(t, Fault, "error")]
            ELSE [fs |-> [fs EXCEPT ![t.ext] = <<>>],
                  t |-> [t EXCEPT !.pc = "cleaned"]]
      [] t.pc = "cleaned" ->
            IF t.transcript = "error"
            THEN [fs |-> fs, t |-> Returned(t, Fault, "error")]
            ELSE [fs |-> fs,
                  t |-> [Returned(t, Ok, "transcription") EXCEPT !.heard = t.read]]

\* The multipart body of a POST /transcribe: an 'audio' part with its
\* filename, or none.
Uploads ==
    {[hasAudio |-> TRUE, filename |-> f] : f \in Filenames}
        \cup {[hasAudio |-> FALSE, filename |-> <<>>]}

\* A /transcribe request, carrying clip number `clip`, as its thread gets it.
Received(upload, clip) ==
    [NoTranscribe EXCEPT !.pc = "received", !.hasAudio = upload.hasAudio,
                         !.filename = upload.filename, !.clip = clip]

\* A client posts a clip to /transcribe and a free thread takes the request.
PostTranscribe(th, upload) ==
    /\ tr[th].pc = "idle"
    /\ uploads < MaxUploads
    /\ uploads' = uploads + 1
    /\ tr' = [tr EXCEPT ![th] = Received(upload, uploads + 1)]
    /\ UNCHANGED files

\* Thread th runs the next step of transcribe().
transcribe(th, o) ==
    /\ tr[th].pc \notin {"idle", "done"}
    /\ LET r == transcribeStep(files, tr[th], o)
       IN  /\ files' = r.fs
           /\ tr' = [tr EXCEPT ![th] = r.t]
    /\ UNCHANGED uploads

\* The client takes the response and the thread is free again.
TakeTranscription(th) ==
    /\ tr[th].pc = "done"
    /\ tr' = [tr EXCEPT ![th] = NoTranscribe]
    /\ UNCHANGED <<files, uploads>>

\* The state after start-up, with no temporary file in the directory.
InitTranscribe ==
    /\ files = NoFiles
    /\ tr = [t \in Threads |-> NoTranscribe]
    /\ uploads = 0
    /\ page = PageListening
    /\ clock = 0
    /\ heard = NoPoll
    /\ qa_pairs = <<>>
    /\ vreq = <<>>
    /\ vresp = <<>>
    /\ todos = <<>>
    /\ created = 0
    /\ deleted = {}
    /\ last = Request("start", 0, None, Ok, <<>>, <<>>, FALSE)

NextTranscribe ==
    \/ \E th \in Threads, upload \in Uploads :
          PostTranscribe(th, upload) /\ UNCHANGED <<todoVars, voiceVars, clientVars>>
    \/ \E th \in Threads, o \in TranscribeOutcomes :
          transcribe(th, o) /\ UNCHANGED <<todoVars, voiceVars, clientVars>>
    \/ \E th \in Threads : TakeTranscription(th) /\ UNCHANGED <<todoVars, voiceVars, clientVars>>

SpecTranscribe == InitTranscribe /\ [][NextTranscribe]_vars

(***************************************************************************)
(*                        Properties of transcribe                         *)
(***************************************************************************)

\* C12: for every transcription request that wrote its temporary file, the
\* file it wrote no longer exists when the request returns, whether the
\* vendor call succeeded, reported an error status or raised.
C12_TempFileGoneOnReturn ==
    \A th \in Threads :
        (tr[th].pc = "done" /\ tr[th].wrote) => files[tr[th].ext] # <<tr[th].clip>>

\* C18: when two transcription requests with one extension are in flight,
\* each request's vendor call reads the clip that request uploaded, and the
\* file a request saved is still there, as saved, when its call reads it.
C18_EachReadsItsOwnClip ==
    \A th \in Threads :
        /\ tr[th].pc = "saved" => files[tr[th].ext] = <<tr[th].clip>>
        /\ tr[th].read # <<>> => tr[th].read = <<tr[th].clip>>

(***************************************************************************)
(*      The server, one request at a time, on every route (src/main.py)    *)
(***************************************************************************)

\* The body of a POST /generate_audio: JSON with a text, JSON without the
\* text key, or a body request.json cannot read.
JsonText(text) == [kind |-> "json", text |-> text]
NoTextKey == [kind |-> "json without text", text |-> <<>>]
NotJsonText == [kind |-> "not json", text |-> <<>>]

\* What elevenlabs_client.text_to_speech.convert(...) comes to: it raises, or
\* returns a generator whose chunks are all read (a stream), or one that
\* raises after the chunks it has given (a broken stream).
Stream(chunks) == [kind |-> "stream", content |-> chunks]
BrokenStream(chunks) == [kind |-> "broken stream", content |-> chunks]

SynthesisOutcomes ==
    { Raises,
      Stream(<< <<"I","D","3">>, <<"f","r","a","m","e">> >>),
      Stream(<<>>),
      BrokenStream(<< <<"I","D","3">> >>) }

\* audio_bytes = b""; for chunk in audio_generator: audio_bytes += chunk
RECURSIVE Collected(_)
Collected(chunks) ==
    IF chunks = <<>> THEN <<>> ELSE chunks[1] \o Collected(Tail(chunks))

\* A mutant of generate_audio: what was collected before the failure is
\* sent as the audio, with status 200.
generate_audioResult_ok(req, s) ==
    IF req.kind = "not json"
    THEN Response(Fault, "audio", <<>>, "none", FALSE, "none", 0, <<>>)
    ELSE LET text == Strip(req.text)
         IN  IF text = <<>>
             THEN Response(BadRequest, "audio", <<>>, "none", FALSE, "none", 0, <<>>)
             ELSE Response(Ok, "audio", Collected(s.content), "none", FALSE,
                           "none", 0, <<Call("synthesis", s)>>)

\* generate_audio() on request body req, when the synthesis call comes to s:
\* the collected bytes with status 200, or on any exception
\* Response(b'', mimetype='audio/mpeg'), 500.
generate_audioResult(req, s) ==
    IF req.kind = "not json"
    THEN Response(Fault, "audio", <<>>, "none", FALSE, "none", 0, <<>>)
    ELSE LET text == Strip(req.text)
         IN  IF text = <<>>
             THEN Response(BadRequest, "audio", <<>>, "none", FALSE, "none", 0, <<>>)
             ELSE IF s.kind = "stream"
                  THEN Response(Ok, "audio", Collected(s.content), "none", FALSE,
                                "none", 0, <<Call("synthesis", s)>>)
                  ELSE Response(Fault, "audio", <<>>, "none", FALSE, "none", 0,
                                <<Call("synthesis", s)>>)

AudioBodies ==
    { JsonText(<<"U","s","e"," ","i","t",".">>), JsonText(<<" ">>),
      NoTextKey, NotJsonText }

\* The statuses whose log line formats the volume with {volume:.2f}.
VolumeStatuses == {"checking", "speech_detected", "silence_detected"}

\* The body of a POST /log_detection: JSON with a status and a volume that is
\* a number or is not, or a body request.json cannot read.
LogBodies ==
    {[kind |-> "json", status |-> st, numeric |-> n] :
        st \in {"checking", "listening", "no such status"}, n \in BOOLEAN}
        \cup {[kind |-> "not json", status |-> "", numeric |-> FALSE]}

LoggedText == <<"logged">>

\* log_detection(): prints a line and answers {'status': 'logged'}; any
\* exception (an unreadable body, a volume that :.2f cannot format) answers
\* the error with status 500.
log_detectionResult(req) ==
    IF req.kind = "not json" \/ (req.status \in VolumeStatuses /\ ~req.numeric)
    THEN Response(Fault, "error", ExceptionText, "none", FALSE, "none", 0, <<>>)
    ELSE Response(Ok, "status", LoggedText, "none", FALSE, "none", 0, <<>>)

\* transcribe() run from its first step to its return, with no other request
\* between its steps.
RECURSIVE transcribeRun(_, _, _)
transcribeRun(fs, t, o) ==
    IF t.pc = "done"
    THEN [fs |-> fs, t |-> t]
    ELSE LET r == transcribeStep(fs, t, o)
         IN  transcribeRun(r.fs, r.t, o)

NoAudioText == <<"No audio file provided">>
TranscriptionFailedText == <<"Transcription failed">>
TranscriptText == <<"the words of the clip">>

\* The response of transcribe() on an upload, over the directory fs, with
\* the directory it leaves.
transcribeResult(fs, upload, o) ==
    LET r == transcribeRun(fs, Received(upload, 1), o)
        text == IF r.t.status = Ok THEN TranscriptText
                ELSE IF r.t.status = BadRequest THEN NoAudioText
                ELSE IF r.t.transcript = "error" THEN TranscriptionFailedText
                ELSE ExceptionText
        calls == IF r.t.calls = 0 THEN <<>>
                 ELSE <<Call("transcription", [kind |-> o, content |-> <<>>])>>
    IN  [fs |-> r.fs,
         resp |-> Response(r.t.status, r.t.field, text, "none", FALSE, "none",
                           0, calls)]

\* The questions put to the server here: one that is blank, one with a
\* keyword, one with a word no stored question holds.
ServerQuestions ==
    { <<" ">>, <<"T","A","S","K">>, <<"w","h","e","n">> }

ServerUploads ==
    { [hasAudio |-> TRUE, filename |-> <<"r","e","c",".","w","a","v">>],
      [hasAudio |-> FALSE, filename |-> <<>>] }

\* The requests of the voice routes, each with its body.
ServerRequests ==
    {[route |-> "get_response", body |-> b] :
        b \in {Json(q) : q \in ServerQuestions} \cup {NoQuestionKey, NotJson}}
    \cup {[route |-> "generate_audio", body |-> b] : b \in AudioBodies}
    \cup {[route |-> "log_detection", body |-> b] : b \in LogBodies}
    \cup {[route |-> "transcribe", body |-> b] : b \in ServerUploads}

\* The lists the server starts with here: the empty one and the full ones.
ServerQALists == {l \in QALists : l = <<>> \/ Len(l) = MaxPairs}

\* A client posts a request to one of the voice routes; the last request is
\* no longer a to-do request.
PostRequest(req) ==
    /\ vreq = <<>>
    /\ vreq' = <<req>>
    /\ vresp' = <<>>
    /\ last' = Request("other", 0, None, Ok, <<>>, <<>>, FALSE)
    /\ UNCHANGED <<todos, created, deleted, qa_pairs, fileVars, clientVars>>

\* The request in flight is for `route` and has no response yet.
InFlight(route) ==
    /\ vreq # <<>>
    /\ vresp = <<>>
    /\ vreq[1].route = route

\* POST /get_response: find_answer reads the global qa_pairs, and the list
\* after the request is the list the lookup leaves.
ServeGetResponse(c, k) ==
    /\ InFlight("get_response")
    /\ LET r == get_responseResult(qa_pairs, vreq[1].body, c, k)
       IN  /\ vresp' = <<r>>
           /\ qa_pairs' = IF r.lookup
                          THEN find_answer(qa_pairs, Strip(vreq[1].body.question),
                                           k).pairs
                          ELSE qa_pairs
    /\ UNCHANGED <<vreq, todoVars, fileVars, clientVars>>

\* POST /generate_audio
ServeGenerateAudio(s) ==
    /\ InFlight("generate_audio")
    /\ vresp' = <<generate_audioResult(vreq[1].body, s)>>
    /\ UNCHANGED <<vreq, qa_pairs, todoVars, fileVars, clientVars>>

\* POST /log_detection
ServeLogDetection ==
    /\ InFlight("log_detection")
    /\ vresp' = <<log_detectionResult(vreq[1].body)>>
    /\ UNCHANGED <<vreq, qa_pairs, todoVars, fileVars, clientVars>>

\* POST /transcribe
ServeTranscribe(o) ==
    /\ InFlight("transcribe")
    /\ LET r == transcribeResult(files, vreq[1].body, o)
       IN  /\ vresp' = <<r.resp>>
           /\ files' = r.fs
    /\ UNCHANGED <<vreq, qa_pairs, todoVars, tr, uploads, clientVars>>

\* The state after start-up: qa_pairs = load_qa_pairs(), an empty to-do
\* table, no temporary file.
InitServer ==
    /\ qa_pairs \in ServerQALists
    /\ vreq = <<>>
    /\ vresp = <<>>
    /\ todos = <<>>
    /\ created = 0
    /\ deleted = {}
    /\ last = Request("start", 0, None, Ok, <<>>, <<>>, FALSE)
    /\ files = NoFiles
    /\ tr = [t \in Threads |-> NoTranscribe]
    /\ uploads = 0
    /\ page = PageListening
    /\ clock = 0
    /\ heard = NoPoll

\* The to-do routes are served between the voice requests.
NextServer ==
    \/ \E req \in ServerRequests : PostRequest(req)
    \/ \E c \in ClassifyOutcomes, k \in CompletionOutcomes : ServeGetResponse(c, k)
    \/ \E s \in SynthesisOutcomes : ServeGenerateAudio(s)
    \/ ServeLogDetection
    \/ \E o \in TranscribeOutcomes : ServeTranscribe(o)
    \/ TakeResponse /\ UNCHANGED <<todoVars, fileVars, clientVars>>
    \/ vreq = <<>> /\ index /\ UNCHANGED <<voiceVars, fileVars, clientVars>>
    \/ \E title \in Titles :
          /\ vreq = <<>>
          /\ created < MaxServerAdds
          /\ addTodo(title)
          /\ UNCHANGED <<voiceVars, fileVars, clientVars>>
    \/ \E id \in Ids : vreq = <<>> /\ completeTodo(id) /\ UNCHANGED <<voiceVars, fileVars, clientVars>>
    \/ \E id \in Ids : vreq = <<>> /\ deleteTodo(id) /\ UNCHANGED <<voiceVars, fileVars, clientVars>>

SpecServer == InitServer /\ [][NextServer]_vars

(***************************************************************************)
(*                      Properties of the server                           *)
(***************************************************************************)

\* A request of a voice route has been served.
Served == vreq # <<>> /\ vresp # <<>>

\* The vendor call failed: it raised, or what it returned could not be used.
FailedCall(call) ==
    CASE call.api = "transcription" -> call.outcome.kind \in {"raises", "error"}
      [] call.api = "synthesis" -> call.outcome.kind # "stream"
      [] OTHER -> call.outcome.kind # "text"

\* A generic error response with the fixed status 500: a JSON error, or the
\* empty audio body.
ErrorResponse(r) ==
    /\ r.status = Fault
    /\ \/ r.field = "error"
       \/ r.field = "audio" /\ r.text = <<>>

\* No vendor call was made twice within the request.
NoRetry(r) ==
    \A i, j \in 1..Len(r.calls) : i # j => r.calls[i].api # r.calls[j].api

\* C13 as stated: for each of the vendor calls (transcription, relevancy
\* classification, fallback completion, speech synthesis), a failure of the
\* call is caught and the enclosing request answers with a generic error
\* response carrying one fixed status code, and the failed call is never
\* retried within that request.
C13_EveryFailureIsAnErrorResponse ==
    Served =>
        /\ \A i \in 1..Len(vresp[1].calls) :
              FailedCall(vresp[1].calls[i]) => ErrorResponse(vresp[1])
        /\ NoRetry(vresp[1])

\* C13, amended: a failure of the transcription call or of the synthesis
\* call is caught and the request answers with an error response of status
\* 500; a failure of the classification call is caught and the question is
\* treated as relevant, and a failure of the completion call is caught and
\* answered with the fixed apology, both in a response of status 200; no
\* vendor call is made twice within a request.
C13_FailuresAreCaughtPerCall ==
    Served =>
        /\ \A i \in 1..Len(vresp[1].calls) :
              LET call == vresp[1].calls[i]
              IN  FailedCall(call) =>
                    CASE call.api \in {"transcription", "synthesis"} ->
                            ErrorResponse(vresp[1])
                      [] call.api = "classification" ->
                            /\ vresp[1].status = Ok
                            /\ vresp[1].gate = "relevant"
                            /\ vresp[1].lookup
                      [] call.api = "completion" ->
                            /\ vresp[1].status = Ok
                            /\ vresp[1].field = "response"
                            /\ vresp[1].text = ApologyText
        /\ NoRetry(vresp[1])

\* C13's case: the synthesis call broke after giving a chunk, and the request
\* was answered with the empty audio body and status 500.
C13_Witness ==
    /\ Served
    /\ vreq[1].route = "generate_audio"
    /\ vresp[1].calls # <<>>
    /\ vresp[1].calls[1].outcome.kind = "broken stream"
    /\ vresp[1].status = Fault

\* C14: after the Q&A list is loaded at start-up, no request of any kind
\* (to-do list, add, toggle, delete, transcribe, get_response, log_detection,
\* generate_audio) adds, removes, reorders or changes a pair: the list is the
\* same in every reachable state.
C14_QAListNeverChanges == [][qa_pairs' = qa_pairs]_vars

\* C14's case: with pairs loaded, a to-do item stored and a temporary file
\* left behind, a question no pair matched has been answered by the language
\* model.
C14_Witness ==
    /\ Served
    /\ vreq[1].route = "get_response"
    /\ vresp[1].path = "fallback"
    /\ vresp[1].calls[2].outcome.kind = "text"
    /\ qa_pairs # <<>>
    /\ todos # <<>>
    /\ files # NoFiles

(***************************************************************************)
(*        The browser page of the voice bot (src/voice_bot.py, script)     *)
(***************************************************************************)

\* const SPEECH_THRESHOLD = 20; const SILENCE_DURATION = 1500;
\* const DETECTION_INTERVAL = 50;
SPEECH_THRESHOLD == 20
SILENCE_DURATION == 1500
DETECTION_INTERVAL == 50

\* The average volumes a run of detectVoice may compute: silence, and the
\* values just below, at and just above the threshold.
Volumes == {0, SPEECH_THRESHOLD - 1, SPEECH_THRESHOLD, SPEECH_THRESHOLD + 1}

\* The time from one run of the setInterval callback to the next: the
\* interval, or longer when the browser holds the timer back.
Delays == {DETECTION_INTERVAL, SILENCE_DURATION}

\* startRecording(): returns if a recorder is recording, else makes a new
\* MediaRecorder and starts it.
startRecording(g) ==
    IF g.recorder = "recording" THEN g ELSE [g EXCEPT !.recorder = "recording"]

\* stopRecordingAndProcess() up to mediaRecorder.stop(): returns if there is
\* no recorder or it is inactive; else isProcessing = true and the recorder
\* is stopped, its stop event pending.
stopRecordingAndProcess(g) ==
    IF g.recorder # "recording"
    THEN g
    ELSE [g EXCEPT !.isProcessing = TRUE, !.recorder = "inactive", !.pc = "stopping"]

\* A mutant of detectVoice: a poll at or above the threshold leaves the
\* silence timer running.
detectVoice_noreset(g, averageVolume, now) ==
    IF g.isProcessing THEN g
    ELSE IF ~g.speechDetected /\ averageVolume > SPEECH_THRESHOLD
         THEN startRecording([g EXCEPT !.speechDetected = TRUE,
                                       !.silenceStartTime = NoTime])
    ELSE IF g.speechDetected /\ averageVolume < SPEECH_THRESHOLD
         THEN IF g.silenceStartTime = NoTime
              THEN [g EXCEPT !.silenceStartTime = now]
              ELSE IF now - g.silenceStartTime > SILENCE_DURATION
                   THEN stopRecordingAndProcess([g EXCEPT !.speechDetected = FALSE])
                   ELSE g
    ELSE g

\* detectVoice() when the average volume is averageVolume and Date.now() is
\* now.
detectVoice(g, averageVolume, now) ==
    IF g.isProcessing THEN g
    ELSE IF ~g.speechDetected /\ averageVolume > SPEECH_THRESHOLD
         THEN startRecording([g EXCEPT !.speechDetected = TRUE,
                                       !.silenceStartTime = NoTime])
    ELSE IF g.speechDetected /\ averageVolume < SPEECH_THRESHOLD
         THEN IF g.silenceStartTime = NoTime
              THEN [g EXCEPT !.silenceStartTime = now]
              ELSE IF now - g.silenceStartTime > SILENCE_DURATION
                   THEN stopRecordingAndProcess([g EXCEPT !.speechDetected = FALSE])
                   ELSE g
    ELSE IF g.speechDetected /\ averageVolume >= SPEECH_THRESHOLD
         THEN [g EXCEPT !.silenceStartTime = NoTime]
    ELSE g

\* A mutant of onstopContinued: isProcessing is not set back.
onstopContinued_keep(g, how) ==
    [g EXCEPT !.speechDetected = FALSE, !.silenceStartTime = NoTime,
              !.pc = "idle", !.ended = how]

\* The onstop handler after `await processAudio(audioBlob)`: speechDetected =
\* false; silenceStartTime = null; isProcessing = false.
onstopContinued(g, how) ==
    [g EXCEPT !.speechDetected = FALSE, !.silenceStartTime = NoTime,
              !.isProcessing = FALSE, !.pc = "idle", !.ended = how]

\* How the promise processAudio awaits at position pc may settle: a fetch
\* rejects, answers with a status that is not ok, answers with a body that
\* cannot be read, or answers well (for /transcribe with an empty
\* transcription or with a question); play() rejects or playback starts.
Settlements(pc) ==
    CASE pc = "transcribe" -> {"rejects", "not ok", "unreadable", "empty", "question"}
      [] pc = "get_response" -> {"rejects", "not ok", "unreadable", "ok"}
      [] pc = "generate_audio" -> {"rejects", "not ok", "unreadable", "ok"}
      [] pc = "play" -> {"rejects", "starts"}
      [] OTHER -> {}

AllSettlements ==
    UNION {Settlements(pc) : pc \in {"transcribe", "get_response", "generate_audio", "play"}}

\* processAudio() from the await at g.pc, settled as o, to its next await or
\* to its end, and then the rest of the onstop handler.  Its catch block
\* sets isProcessing = false itself.
processAudio(g, o) ==
    LET caught == onstopContinued([g EXCEPT !.isProcessing = FALSE], "caught")
    IN  CASE g.pc = "transcribe" ->
                IF o = "question" THEN [g EXCEPT !.pc = "get_response"]
                ELSE IF o = "empty" THEN onstopContinued(g, "empty")
                ELSE caught
          [] g.pc = "get_response" ->
                IF o = "ok" THEN [g EXCEPT !.pc = "generate_audio"] ELSE caught
          [] g.pc = "generate_audio" ->
                IF o = "ok" THEN [g EXCEPT !.pc = "play", !.audio = "silent"]
                ELSE IF o = "not ok" THEN onstopContinued(g, "no audio")
                ELSE caught
          [] g.pc = "play" ->
                IF o = "starts"
                THEN onstopContinued([g EXCEPT !.audio = "playing"], "played")
                ELSE caught

\* The setInterval callback runs, d ms after its last run, and the analyser
\* gives volume v: if (!isProcessing) detectVoice().
Tick(d, v) ==
    /\ clock + d <= MaxTime
    /\ clock' = clock + d
    /\ page' = IF page.isProcessing THEN page ELSE detectVoice(page, v, clock + d)
    /\ heard' = IF page.isProcessing
                THEN NoPoll
                ELSE [volume |-> v,
                      ran |-> TRUE,
                      quietSince |-> IF v >= SPEECH_THRESHOLD THEN NoTime
                                     ELSE IF heard.quietSince = NoTime THEN clock + d
                                     ELSE heard.quietSince,
                      reset |-> IF ~page.speechDetected THEN FALSE
                                ELSE \/ heard.reset
                                     \/ /\ page.silenceStartTime # NoTime
                                        /\ v >= SPEECH_THRESHOLD]

\* The recorder's stop event: the onstop handler calls processAudio, which
\* posts the clip to /transcribe.
OnStop ==
    /\ page.pc = "stopping"
    /\ page' = [page EXCEPT !.pc = "transcribe"]
    /\ UNCHANGED <<clock, heard>>

\* The promise processAudio awaits settles.
Settle(o) ==
    /\ o \in Settlements(page.pc)
    /\ page' = processAudio(page, o)
    /\ UNCHANGED <<clock, heard>>

\* The response audio plays to its end.
AudioEnded ==
    /\ page.audio = "playing"
    /\ page' = [page EXCEPT !.audio = "silent"]
    /\ UNCHANGED <<clock, heard>>

InitClient ==
    /\ page = PageListening
    /\ clock = 0
    /\ heard = NoPoll
    /\ todos = <<>>
    /\ created = 0
    /\ deleted = {}
    /\ last = Request("start", 0, None, Ok, <<>>, <<>>, FALSE)
    /\ qa_pairs = <<>>
    /\ vreq = <<>>
    /\ vresp = <<>>
    /\ files = NoFiles
    /\ tr = [t \in Threads |-> NoTranscribe]
    /\ uploads = 0

NextClient ==
    \/ \E d \in Delays, v \in Volumes :
          Tick(d, v) /\ UNCHANGED <<todoVars, voiceVars, fileVars>>
    \/ OnStop /\ UNCHANGED <<todoVars, voiceVars, fileVars>>
    \/ \E o \in AllSettlements : Settle(o) /\ UNCHANGED <<todoVars, voiceVars, fileVars>>
    \/ AudioEnded /\ UNCHANGED <<todoVars, voiceVars, fileVars>>

SpecClient == InitClient /\ [][NextClient]_vars

\* The stop event is delivered, and every fetch and play call settles.
FairClient ==
    /\ WF_vars(OnStop /\ UNCHANGED <<todoVars, voiceVars, fileVars>>)
    /\ WF_vars(\E o \in AllSettlements :
                  Settle(o) /\ UNCHANGED <<todoVars, voiceVars, fileVars>>)

SpecClientFair == InitClient /\ [][NextClient]_vars /\ FairClient

(***************************************************************************)
(*                     Properties of the browser page                      *)
(***************************************************************************)

\* C15: after a bot response starts playing, voice detection does not resume
\* (isProcessing stays true and no new recording starts) until the response
\* audio has finished playing.
C15_NoDetectionWhilePlaying ==
    page.audio = "playing" =>
        /\ page.isProcessing
        /\ page.recorder # "recording"

\* The step is a run of the detection timer's callback.
TimerRan == clock' # clock

\* C16: a recording is stopped and sent for processing only after the polled
\* volume has stayed below the speech threshold continuously for more than
\* 1.5 seconds; any poll at or above the threshold while speech is detected
\* resets the silence timer; and a recording starts only on a poll strictly
\* above the threshold while no speech is detected.
C16_SilenceStopsSpeechStarts ==
    /\ [][(page.pc = "idle" /\ page'.pc = "stopping") =>
            /\ TimerRan
            /\ page.recorder = "recording"
            /\ heard'.volume < SPEECH_THRESHOLD
            /\ heard'.quietSince # NoTime
            /\ clock' - heard'.quietSince > SILENCE_DURATION]_vars
    /\ [][(/\ TimerRan
           /\ ~page.isProcessing
           /\ page.speechDetected
           /\ heard'.volume >= SPEECH_THRESHOLD) =>
            /\ page'.silenceStartTime = NoTime
            /\ page'.recorder = "recording"
            /\ ~page'.isProcessing]_vars
    /\ [][(page.recorder # "recording" /\ page'.recorder = "recording") =>
            /\ TimerRan
            /\ heard'.volume > SPEECH_THRESHOLD
            /\ ~page.speechDetected]_vars

\* C16's case: during one recording the silence timer was reset by a poll at
\* the threshold or above, and later the recording was stopped after more
\* than 1.5 seconds of polls below it.
C16_Witness ==
    /\ page.pc = "stopping"
    /\ heard.reset
    /\ heard.quietSince # NoTime
    /\ clock - heard.quietSince > SILENCE_DURATION

\* C19: every processing cycle started by stopRecordingAndProcess eventually
\* sets isProcessing back to false and lets voice detection run again,
\* whichever way the pipeline ends, provided every fetch and play call
\* eventually settles.
C19_ProcessingEnds ==
    page.isProcessing ~>
        (/\ ~page.isProcessing
         /\ page.pc = "idle"
         /\ ~page.speechDetected
         /\ page.silenceStartTime = NoTime)

\* C19's case: a cycle that ended in processAudio's catch block is over, and
\* the page is listening again.
C19_Witness ==
    /\ page.ended = "caught"
    /\ page.recorder = "inactive"
    /\ ~page.isProcessing
    /\ page.pc = "idle"

=============================================================================
